---------------------------- MODULE Spec2Model ----------------------------
(***************************************************************************)
(* Model of libthread (src/libthread/libthread.c): one thread handle that  *)
(* owns an OS thread, its creation attributes and one lock variant chosen  *)
(* at creation (spin, mutex, semaphore, condition variable + mutex), and   *)
(* the lock/unlock/wait/signal/signal_all operations dispatched on the     *)
(* handle's type.                                                          *)
(*                                                                         *)
(* Three threads act: "main", the owner, which calls thread_create, any    *)
(* operation in any order and thread_destroy; "worker", the OS thread      *)
(* spawned by thread_create, which runs the entry function given to        *)
(* thread_create; and "aux", another application thread that shares the    *)
(* handle (it acts only in the signalling scenario).                        *)
(* The platform primitives (the mutex, semaphore,                          *)
(* condition and spin calls) are not part of libthread.c; they are         *)
(* modelled from their description in the specification.  An operation on  *)
(* a primitive that is not initialized (never initialized, or already      *)
(* deinitialized) is undefined behaviour: the model lets it either fail or *)
(* go on as if the primitive were valid.                                   *)
(***************************************************************************)
EXTENDS Integers, FiniteSets, Sequences, TLC

(* ------------------------------ bounds -------------------------------- *)

\* Largest finite timeout (milliseconds) passed to thread_wait.
MaxMs == 1

\* Cap on the semaphore count (sem_lock_signal is not called beyond it).
MaxSem == 2

\* Main starts its increment routine only while fewer increments are done.
MaxIncr == 2

(* ----------------------------- constants ------------------------------ *)

\* "return -1": the error result of every operation.
ERR == -1

\* "return 0": the success result.
OK == 0

\* Result of a wait whose timeout expired, distinct from OK and ERR.
TIMEDOUT == 1

LOCK_SPIN == "LOCK_SPIN"
LOCK_MUTEX == "LOCK_MUTEX"
LOCK_SEM == "LOCK_SEM"
LOCK_COND == "LOCK_COND"
LOCK_RW == "LOCK_RW"

\* Stands for every value of the variadic argument that is no enumerator.
LOCK_OTHER == "LOCK_OTHER"

\* The kinds a caller can pass to thread_create.
RequestedKinds ==
    {LOCK_SPIN, LOCK_MUTEX, LOCK_SEM, LOCK_COND, LOCK_RW, LOCK_OTHER}

\* The four kinds thread_create keeps as they are.
ValidKinds == {LOCK_SPIN, LOCK_MUTEX, LOCK_SEM, LOCK_COND}

Threads == {"main", "worker", "aux"}

NOBODY == "nobody"

\* Timeouts passed to thread_wait: negative means no timeout.
Timeouts == -1 .. MaxMs

\* The scoped resources of a handle.
Resources == {"mem", "attr", "mutex", "sem", "cond"}

\* Entry functions handed to thread_create ("null": a null pointer).
\*   wait_once:   thread_wait(t, arg); return
\*   wait_loop:   while (t->run) thread_wait(t, arg); return
\*   lock_unlock: thread_lock(t); counter++; thread_unlock(t); return
EntryFuncs == {"null", "wait_once", "wait_loop", "lock_unlock"}

\* Where thread_create can fail.
CreateFailures == {"none", "calloc", "attr", "lock", "spawn"}

(* ------------------------------ state --------------------------------- *)

VARIABLES
    hstate,     \* "none" before thread_create, "live", "null" (create
                \* returned NULL), "freed" (thread_destroy released it)
    req,        \* the kind passed to thread_create
    type,       \* t->type
    run,        \* t->run
    func,       \* t->func
    arg,        \* t->arg: the timeout the entry function waits with
    ninit,      \* per resource: how many times it was initialized
    ndeinit,    \* per resource: how many times it was deinitialized
    owner,      \* holder of t->lock (mutex or spin flag), or NOBODY
    sem,        \* count of t->lock.sem
    pc,         \* per thread: where it is inside an operation
    call,       \* per thread: its current or last call and its result
    held,       \* per thread: it held the mutex when it entered wait
    wpc,        \* position of the worker thread in its entry function
    mpc,        \* position of main in its increment routine, or "free"
    counter,    \* the application's shared counter
    tmp,        \* per thread: the counter value it read
    nincr,      \* how many increments were completed
    signalled   \* a signal, signal_all or destroy was issued on the handle

vars == <<hstate, req, type, run, func, arg, ninit, ndeinit, owner, sem,
          pc, call, held, wpc, mpc, counter, tmp, nincr, signalled>>

\* The application's data, which no operation of the handle touches.
app == <<counter, tmp, nincr>>

handle == <<type, run, func, arg, ninit, ndeinit, owner, sem>>

NoCall ==
    [op |-> "none", hnd |-> "null", ms |-> 0, fin |-> TRUE, ret |-> OK,
     why |-> "none"]

\* A resource is usable when it was initialized and not yet deinitialized.
Usable(r) == ninit[r] > 0 /\ ndeinit[r] = 0

Init ==
    /\ hstate = "none"
    /\ req = LOCK_SPIN
    /\ type = LOCK_SPIN
    /\ run = FALSE
    /\ func = "null"
    /\ arg = -1
    /\ ninit = [r \in Resources |-> 0]
    /\ ndeinit = [r \in Resources |-> 0]
    /\ owner = NOBODY
    /\ sem = 0
    /\ pc = [t \in Threads |-> "idle"]
    /\ call = [t \in Threads |-> NoCall]
    /\ held = [t \in Threads |-> FALSE]
    /\ wpc = "unborn"
    /\ mpc = "free"
    /\ counter = 0
    /\ tmp = [t \in Threads |-> 0]
    /\ nincr = 0
    /\ signalled = FALSE

(* --------------------------- thread_create ---------------------------- *)

\* Mutant of NormalizeKind: the type is stored as it was passed.
NormalizeKind_Unchanged(k) == k

\* Lines 62-65: a type that is none of the four kinds becomes LOCK_COND.
NormalizeKind(k) == IF k \in ValidKinds THEN k ELSE LOCK_COND

\* Lines 73-98: the primitives the switch initializes for a type.
CreateInits(ty) ==
    CASE ty = LOCK_MUTEX -> {"mutex"}
      [] ty = LOCK_SEM   -> {"sem"}
      [] ty = LOCK_COND  -> {"cond"}
      [] OTHER           -> {}

\* What thread_create has initialized when it fails at `fail` (or succeeds).
CreateAcquired(ty, fail) ==
    CASE fail = "calloc" -> {}
      [] fail = "attr"   -> {"mem"}
      [] fail = "lock"   -> {"mem", "attr"}
      [] OTHER           -> {"mem", "attr"} \cup CreateInits(ty)

\* Lines 109-113: what the err path releases.
ErrReleased(acquired) == acquired \cap {"mem"}

\* Mutant of IsNull: the null check is missing.
IsNull_NoCheck(hnd) == FALSE

\* Lines 118, 195, 213, 231, 250, 268: "if (!t)".
IsNull(hnd) == hnd = "null"

\* Mutant of RunAfterCreate: t->run keeps the zero calloc gave it.
RunAfterCreate_Unset == FALSE

\* Line 102: t->run = true.
RunAfterCreate == TRUE

\* Line 121: t->run = false.
RunAfterDestroy == FALSE

Bump(f, S) == [r \in Resources |-> IF r \in S THEN f[r] + 1 ELSE f[r]]

thread_create(f, a, k, fail) ==
    /\ hstate = "none"
    /\ pc["main"] = "idle"
    /\ fail = "lock" => CreateInits(NormalizeKind(k)) # {}
    /\ LET ty == NormalizeKind(k)
           got == CreateAcquired(ty, fail)
       IN  /\ req' = k
           /\ ninit' = Bump(ninit, got)
           /\ IF fail = "none"
                THEN /\ hstate' = "live"
                     /\ ndeinit' = ndeinit
                     /\ wpc' = "entry"
                ELSE /\ hstate' = "null"
                     /\ ndeinit' = Bump(ndeinit, ErrReleased(got))
                     /\ wpc' = wpc
           /\ type' = IF fail = "calloc" THEN type ELSE ty
           /\ IF fail \in {"none", "spawn"}
                THEN run' = RunAfterCreate /\ func' = f /\ arg' = a
                ELSE UNCHANGED <<run, func, arg>>
           /\ call' = [call EXCEPT !["main"] =
                  [op |-> "create", hnd |-> "null", ms |-> 0, fin |-> TRUE,
                   ret |-> IF fail = "none" THEN OK ELSE ERR,
                   why |-> fail]]
    /\ UNCHANGED <<app, mpc, signalled>>
    /\ UNCHANGED <<owner, sem, pc, held>>

(* --------------------------- thread_destroy --------------------------- *)

\* Mutant of DestroyBroadcasts: thread_destroy never broadcasts.
DestroyBroadcasts_Never(ty) == FALSE

\* Lines 131-132: the types for which thread_destroy broadcasts.
DestroyBroadcasts(ty) == ty = LOCK_COND

\* Mutant of DestroyDeinits: the LOCK_COND arm deinitializes the condition
\* variable before the mutex.
DestroyDeinits_CondFirst(ty) ==
    CASE ty = LOCK_SEM   -> <<"sem">>
      [] ty = LOCK_MUTEX -> <<"mutex">>
      [] ty = LOCK_COND  -> <<"cond", "mutex">>
      [] OTHER           -> <<>>

\* Lines 122-138: the primitives thread_destroy deinitializes, in order.
DestroyDeinits(ty) ==
    CASE ty = LOCK_SEM   -> <<"sem">>
      [] ty = LOCK_MUTEX -> <<"mutex">>
      [] ty = LOCK_COND  -> <<"mutex", "cond">>
      [] OTHER           -> <<>>

\* Lines 118-121: the null check, then t->run = false.
thread_destroy(hnd) ==
    /\ signalled' = (signalled \/ hnd = "t")
    /\ pc["main"] = "idle"
    /\ hnd = "t" => hstate = "live"
    /\ IF IsNull(hnd)
         THEN /\ call' = [call EXCEPT !["main"] =
                    [op |-> "destroy", hnd |-> hnd, ms |-> 0, fin |-> TRUE,
                     ret |-> OK, why |-> "none"]]
              /\ UNCHANGED <<run, pc>>
         ELSE /\ run' = RunAfterDestroy
              /\ pc' = [pc EXCEPT !["main"] = "d_switch"]
              /\ call' = [call EXCEPT !["main"] =
                    [op |-> "destroy", hnd |-> hnd, ms |-> 0, fin |-> FALSE,
                     ret |-> OK, why |-> "none"]]
    /\ UNCHANGED <<app, mpc>>
    /\ UNCHANGED <<hstate, req, type, func, arg, ninit, ndeinit, owner,
                   sem, held, wpc>>

\* mutex_cond_signal_all: every thread parked on the condition is woken.
PcAfterBroadcast ==
    [t \in Threads |-> IF pc[t] = "cond_parked" THEN "cond_woken" ELSE pc[t]]

\* The woken threads remember which call woke them.
CallAfterBroadcast(by) ==
    [t \in Threads |->
        IF pc[t] = "cond_parked" THEN [call[t] EXCEPT !.why = by]
        ELSE call[t]]

\* Line 132: the broadcast of the LOCK_COND arm (other arms skip it).
destroy_signal_all ==
    /\ pc["main"] = "d_switch"
    /\ IF DestroyBroadcasts(type)
         THEN /\ pc' = [PcAfterBroadcast EXCEPT !["main"] = "d_deinit"]
              /\ call' = CallAfterBroadcast("destroy")
         ELSE /\ pc' = [pc EXCEPT !["main"] = "d_deinit"]
              /\ call' = call
    /\ UNCHANGED <<app, mpc, signalled>>
    /\ UNCHANGED <<hstate, req, type, run, func, arg, ninit, ndeinit, owner,
                   sem, held, wpc>>

\* Lines 126, 129, 133, 134: one deinit call per step, in the arm's order.
destroy_deinit ==
    /\ pc["main"] = "d_deinit"
    /\ LET todo == DestroyDeinits(type)
           done == Cardinality({i \in 1 .. Len(todo) : ndeinit[todo[i]] > 0})
       IN  IF done < Len(todo)
             THEN /\ ndeinit' = Bump(ndeinit, {todo[done + 1]})
                  /\ pc' = pc
             ELSE /\ ndeinit' = ndeinit
                  /\ pc' = [pc EXCEPT !["main"] = "d_join"]
    /\ UNCHANGED <<app, mpc, signalled>>
    /\ UNCHANGED <<hstate, req, type, run, func, arg, ninit, owner, sem,
                   call, held, wpc>>

\* Mutant of Joined: thread_destroy does not wait for the thread.
Joined_NoWait == TRUE

\* Line 139: pthread_join returns once the entry function has returned.
Joined == wpc = "exited"

destroy_join ==
    /\ pc["main"] = "d_join"
    /\ Joined
    /\ pc' = [pc EXCEPT !["main"] = "d_attr"]
    /\ UNCHANGED <<app, mpc, signalled>>
    /\ UNCHANGED <<hstate, req, type, run, func, arg, ninit, ndeinit, owner,
                   sem, call, held, wpc>>

\* Line 140: pthread_attr_destroy.
destroy_attr ==
    /\ pc["main"] = "d_attr"
    /\ ndeinit' = Bump(ndeinit, {"attr"})
    /\ pc' = [pc EXCEPT !["main"] = "d_free"]
    /\ UNCHANGED <<app, mpc, signalled>>
    /\ UNCHANGED <<hstate, req, type, run, func, arg, ninit, owner, sem,
                   call, held, wpc>>

\* Line 141: free(t); thread_destroy returns.
destroy_free ==
    /\ pc["main"] = "d_free"
    /\ ndeinit' = Bump(ndeinit, {"mem"})
    /\ hstate' = "freed"
    /\ pc' = [pc EXCEPT !["main"] = "idle"]
    /\ call' = [call EXCEPT !["main"].fin = TRUE]
    /\ UNCHANGED <<app, mpc, signalled>>
    /\ UNCHANGED <<req, type, run, func, arg, ninit, owner, sem, held, wpc>>

(* ------------------------- the entry function ------------------------- *)

\* The operation the entry function calls next, "none" if it calls none.
EntryNextOp(f, w) ==
    CASE f = "wait_once" /\ w = "run"        -> "wait"
      [] f = "wait_loop" /\ w = "body"       -> "wait"
      [] f = "lock_unlock" /\ w = "run"      -> "lock"
      [] f = "lock_unlock" /\ w = "written"  -> "unlock"
      [] OTHER                               -> "none"

\* Where the entry function stands once that call has been made.
EntryAfterCall(f, w) ==
    CASE f = "wait_loop"                  -> "run"
      [] f = "lock_unlock" /\ w = "run"   -> "locked"
      [] OTHER                            -> "last"

\* Thread th may now call op on handle hnd with timeout ms: the worker
\* calls what its entry function says, on its own handle; main inside its
\* increment routine calls what the routine (the code of lock_unlock)
\* says; otherwise a thread in no call calls anything (the handle itself
\* only while it is live).
MayCall(th, op, hnd, ms) ==
    /\ pc[th] = "idle"
    /\ CASE th = "worker" ->
               /\ hnd = "t"
               /\ EntryNextOp(func, wpc) = op
               /\ op = "wait" => ms = arg
         [] th = "main" /\ mpc # "free" ->
               /\ hnd = "t"
               /\ hstate = "live"
               /\ EntryNextOp("lock_unlock", mpc) = op
         [] OTHER ->
               hnd = "t" => hstate = "live"

\* Where main stands once it has made a call: its routine ends with unlock.
MainAfterCall(m) ==
    CASE m = "free"    -> "free"
      [] m = "written" -> "free"
      [] OTHER         -> EntryAfterCall("lock_unlock", m)

\* The entry function, or main's routine, moves on when it makes a call.
Advance(th) ==
    /\ wpc' = IF th = "worker" THEN EntryAfterCall(func, wpc) ELSE wpc
    /\ mpc' = IF th = "main" THEN MainAfterCall(mpc) ELSE mpc

Called(op, hnd, ms, fin, ret) ==
    [op |-> op, hnd |-> hnd, ms |-> ms, fin |-> fin, ret |-> ret,
     why |-> "none"]

\* The call of th returns ret at once.
Return(th, op, hnd, ms, ret) ==
    /\ call' = [call EXCEPT ![th] = Called(op, hnd, ms, TRUE, ret)]
    /\ pc' = pc

\* The call of th blocks at p.
Block(th, op, hnd, ms, p) ==
    /\ call' = [call EXCEPT ![th] = Called(op, hnd, ms, FALSE, OK)]
    /\ pc' = [pc EXCEPT ![th] = p]

(* ----------------------- thread_lock / thread_unlock ------------------ *)

\* Mutant of LockDispatch: the default arm falls into the mutex arm.
LockDispatch_DefaultIsMutex(ty) ==
    CASE ty = LOCK_SPIN  -> "spin"
      [] OTHER           -> "mutex"

\* Mutant of LockDispatch: the LOCK_SPIN arm is missing.
LockDispatch_NoSpinArm(ty) ==
    CASE ty = LOCK_MUTEX -> "mutex"
      [] OTHER           -> "none"

\* Lines 198-207, 216-225: the primitive lock and unlock dispatch to.
LockDispatch(ty) ==
    CASE ty = LOCK_MUTEX -> "mutex"
      [] ty = LOCK_SPIN  -> "spin"
      [] OTHER           -> "none"

\* The primitive p can be operated on: the spin flag needs no init.
Valid(p) == p = "spin" \/ Usable(p)

thread_lock(th, hnd) ==
    /\ MayCall(th, "lock", hnd, 0)
    /\ Advance(th)
    /\ LET p == IF IsNull(hnd) THEN "none" ELSE LockDispatch(type)
       IN  \/ /\ p = "none"
              /\ Return(th, "lock", hnd, 0, ERR)
              /\ owner' = owner
           \/ /\ p # "none"
              /\ ~Valid(p)
              /\ Return(th, "lock", hnd, 0, ERR)
              /\ owner' = owner
           \/ /\ p # "none"
              /\ owner = NOBODY
              /\ Return(th, "lock", hnd, 0, OK)
              /\ owner' = th
           \/ /\ p # "none"
              /\ owner # NOBODY
              /\ Block(th, "lock", hnd, 0, "lock_blocked")
              /\ owner' = owner
    /\ UNCHANGED <<app, signalled>>
    /\ UNCHANGED <<hstate, req, type, run, func, arg, ninit, ndeinit, sem,
                   held>>

\* A thread blocked in mutex_lock or spinning in spin_lock gets the lock.
lock_acquire(th) ==
    /\ pc[th] = "lock_blocked"
    /\ owner = NOBODY
    /\ owner' = th
    /\ pc' = [pc EXCEPT ![th] = "idle"]
    /\ call' = [call EXCEPT ![th].fin = TRUE, ![th].ret = OK]
    /\ UNCHANGED <<app, mpc, signalled>>
    /\ UNCHANGED <<hstate, req, type, run, func, arg, ninit, ndeinit, sem,
                   held, wpc>>

thread_unlock(th, hnd) ==
    /\ MayCall(th, "unlock", hnd, 0)
    /\ Advance(th)
    /\ LET p == IF IsNull(hnd) THEN "none" ELSE LockDispatch(type)
       IN  \/ /\ p = "none"
              /\ Return(th, "unlock", hnd, 0, ERR)
              /\ owner' = owner
           \/ /\ p = "mutex"
              /\ owner # th \/ ~Valid(p)
              /\ Return(th, "unlock", hnd, 0, ERR)
              /\ owner' = owner
           \/ /\ p # "none"
              /\ Return(th, "unlock", hnd, 0, OK)
              /\ owner' = NOBODY
    /\ UNCHANGED <<app, signalled>>
    /\ UNCHANGED <<hstate, req, type, run, func, arg, ninit, ndeinit, sem,
                   held>>

(* ----------------------------- thread_wait ---------------------------- *)

\* Mutant of WaitDispatch: LOCK_SPIN falls into the condition arm.
WaitDispatch_SpinWaits(ty) ==
    CASE ty \in {LOCK_COND, LOCK_MUTEX, LOCK_SPIN} -> "cond"
      [] ty = LOCK_SEM                             -> "sem"
      [] OTHER                                     -> "none"

\* Mutant of WaitDispatch: LOCK_SEM falls into the condition arm.
WaitDispatch_SemWaitsOnCond(ty) ==
    CASE ty \in {LOCK_COND, LOCK_MUTEX, LOCK_SEM} -> "cond"
      [] OTHER                                    -> "none"

\* Lines 234-244: the primitive wait dispatches to.
WaitDispatch(ty) ==
    CASE ty \in {LOCK_COND, LOCK_MUTEX} -> "cond"
      [] ty = LOCK_SEM                  -> "sem"
      [] OTHER                          -> "none"

\* mutex_cond_wait operates on the mutex and on the condition variable.
CondWaitValid == Usable("mutex") /\ Usable("cond")

thread_wait(th, hnd, ms) ==
    /\ MayCall(th, "wait", hnd, ms)
    /\ Advance(th)
    /\ LET p == IF IsNull(hnd) THEN "none" ELSE WaitDispatch(type)
       IN  \/ /\ p = "none"
              /\ Return(th, "wait", hnd, ms, ERR)
              /\ UNCHANGED <<owner, sem, held>>
           \/ /\ p = "cond"
              /\ ~CondWaitValid
              /\ Return(th, "wait", hnd, ms, ERR)
              /\ UNCHANGED <<owner, sem, held>>
           \/ /\ p = "cond"
              /\ Block(th, "wait", hnd, ms, "cond_parked")
              /\ held' = [held EXCEPT ![th] = (owner = th)]
              /\ owner' = IF owner = th THEN NOBODY ELSE owner
              /\ sem' = sem
           \/ /\ p = "sem"
              /\ ~Usable("sem")
              /\ Return(th, "wait", hnd, ms, ERR)
              /\ UNCHANGED <<owner, sem, held>>
           \/ /\ p = "sem"
              /\ sem > 0
              /\ Return(th, "wait", hnd, ms, OK)
              /\ sem' = sem - 1
              /\ UNCHANGED <<owner, held>>
           \/ /\ p = "sem"
              /\ sem = 0
              /\ Block(th, "wait", hnd, ms, "sem_parked")
              /\ UNCHANGED <<owner, sem, held>>
    /\ UNCHANGED <<app, signalled>>
    /\ UNCHANGED <<hstate, req, type, run, func, arg, ninit, ndeinit>>

\* The timeout of a thread parked on the condition variable expires.
cond_timeout(th) ==
    /\ pc[th] = "cond_parked"
    /\ call[th].ms >= 0
    /\ pc' = [pc EXCEPT ![th] = "cond_woken"]
    /\ call' = [call EXCEPT ![th].why = "timeout"]
    /\ UNCHANGED <<app, mpc, signalled>>
    /\ UNCHANGED <<hstate, req, type, run, func, arg, ninit, ndeinit, owner,
                   sem, held, wpc>>

\* A woken thread passes through the paired mutex and mutex_cond_wait
\* returns: the mutex is its own again if it held it when it entered.  A
\* thread that could park took the mutex as valid, so the pass fails only
\* on a mutex deinitialized meanwhile.
cond_return(th) ==
    /\ pc[th] = "cond_woken"
    /\ \/ /\ owner = NOBODY \/ ~Usable("mutex")
          /\ owner' = IF held[th] /\ owner = NOBODY THEN th ELSE owner
          /\ call' = [call EXCEPT ![th].fin = TRUE,
                ![th].ret = IF call[th].why = "timeout" THEN TIMEDOUT ELSE OK]
       \/ /\ ndeinit["mutex"] > 0
          /\ owner' = owner
          /\ call' = [call EXCEPT ![th].fin = TRUE, ![th].ret = ERR]
    /\ pc' = [pc EXCEPT ![th] = "idle"]
    /\ held' = [held EXCEPT ![th] = FALSE]
    /\ UNCHANGED <<app, mpc, signalled>>
    /\ UNCHANGED <<hstate, req, type, run, func, arg, ninit, ndeinit, sem,
                   wpc>>

\* A thread parked on the semaphore takes a count that was posted.
sem_acquire(th) ==
    /\ pc[th] = "sem_parked"
    /\ sem > 0
    /\ sem' = sem - 1
    /\ pc' = [pc EXCEPT ![th] = "idle"]
    /\ call' = [call EXCEPT ![th].fin = TRUE, ![th].ret = OK,
                            ![th].why = "signal"]
    /\ UNCHANGED <<app, mpc, signalled>>
    /\ UNCHANGED <<hstate, req, type, run, func, arg, ninit, ndeinit, owner,
                   held, wpc>>

\* The timeout of a thread parked on the semaphore expires.
sem_timeout(th) ==
    /\ pc[th] = "sem_parked"
    /\ call[th].ms >= 0
    /\ pc' = [pc EXCEPT ![th] = "idle"]
    /\ call' = [call EXCEPT ![th].fin = TRUE, ![th].ret = TIMEDOUT,
                            ![th].why = "timeout"]
    /\ UNCHANGED <<app, mpc, signalled>>
    /\ UNCHANGED <<hstate, req, type, run, func, arg, ninit, ndeinit, owner,
                   sem, held, wpc>>

(* --------------------- thread_signal / thread_signal_all -------------- *)

\* Mutant of SignalDispatch: the LOCK_COND arm is missing.
SignalDispatch_NoCondArm(ty) ==
    CASE ty = LOCK_SEM  -> "sem"
      [] OTHER          -> "none"

\* Lines 253-262: the primitive signal dispatches to.
SignalDispatch(ty) ==
    CASE ty = LOCK_COND -> "cond"
      [] ty = LOCK_SEM  -> "sem"
      [] OTHER          -> "none"

\* Line 263: what thread_signal returns when the switch falls through.
SignalFallThrough == OK

\* The threads parked on the condition variable.
CondParked == {w \in Threads : pc[w] = "cond_parked"}

thread_signal(th, hnd) ==
    /\ signalled' = (signalled \/ hnd = "t")
    /\ MayCall(th, "signal", hnd, 0)
    /\ Advance(th)
    /\ LET p == IF IsNull(hnd) THEN "null" ELSE SignalDispatch(type)
       IN  \/ /\ p = "null"
              /\ Return(th, "signal", hnd, 0, ERR)
              /\ sem' = sem
           \/ /\ p = "none"
              /\ Return(th, "signal", hnd, 0, SignalFallThrough)
              /\ sem' = sem
           \/ /\ p = "cond"
              /\ CondParked = {} \/ ~Usable("cond")
              /\ Return(th, "signal", hnd, 0, SignalFallThrough)
              /\ sem' = sem
           \/ /\ p = "cond"
              /\ \E w \in CondParked :
                    /\ pc' = [pc EXCEPT ![w] = "cond_woken"]
                    /\ call' = [call EXCEPT
                          ![th] = Called("signal", hnd, 0, TRUE,
                                         SignalFallThrough),
                          ![w] = [call[w] EXCEPT !.why = "signal"]]
              /\ sem' = sem
           \/ /\ p = "sem"
              /\ ~Usable("sem")
              /\ Return(th, "signal", hnd, 0, ERR)
              /\ sem' = sem
           \/ /\ p = "sem"
              /\ sem < MaxSem
              /\ Return(th, "signal", hnd, 0, OK)
              /\ sem' = sem + 1
    /\ UNCHANGED <<app>>
    /\ UNCHANGED <<hstate, req, type, run, func, arg, ninit, ndeinit, owner,
                   held>>

\* Lines 271-277: the types for which signal_all broadcasts.
SignalAllDispatch(ty) == IF ty = LOCK_COND THEN "cond" ELSE "none"

\* Line 278: what thread_signal_all returns for every type.
SignalAllRet == OK

thread_signal_all(th, hnd) ==
    /\ signalled' = (signalled \/ hnd = "t")
    /\ MayCall(th, "signal_all", hnd, 0)
    /\ Advance(th)
    /\ LET p == IF IsNull(hnd) THEN "null" ELSE SignalAllDispatch(type)
       IN  \/ /\ p = "null"
              /\ Return(th, "signal_all", hnd, 0, ERR)
           \/ /\ p = "none"
              /\ Return(th, "signal_all", hnd, 0, SignalAllRet)
           \/ /\ p = "cond"
              /\ pc' = PcAfterBroadcast
              /\ call' = [CallAfterBroadcast("signal_all") EXCEPT
                    ![th] = Called("signal_all", hnd, 0, TRUE, SignalAllRet)]
    /\ UNCHANGED <<app>>
    /\ UNCHANGED <<hstate, req, type, run, func, arg, ninit, ndeinit, owner,
                   sem, held>>

(* --------------------- what an operation touches --------------------- *)

\* The arguments of the primitive call a dispatch arm makes: mutex_cond_wait
\* takes the mutex and the condition variable (line 237).
ArmTouches(p) ==
    CASE p = "mutex" -> {"mutex"}
      [] p = "sem"   -> {"sem"}
      [] p = "cond"  -> {"cond"}
      [] p = "wait"  -> {"mutex", "cond"}
      [] OTHER       -> {}

\* The mutex, semaphore or condition variable that operation op passes to
\* a primitive call on a handle of type ty.
Touches(op, ty) ==
    CASE op \in {"lock", "unlock"} -> ArmTouches(LockDispatch(ty))
      [] op = "wait" ->
            IF WaitDispatch(ty) = "cond" THEN ArmTouches("wait")
            ELSE ArmTouches(WaitDispatch(ty))
      [] op = "signal" -> ArmTouches(SignalDispatch(ty))
      [] op = "signal_all" -> ArmTouches(SignalAllDispatch(ty))
      [] op = "destroy" ->
            {DestroyDeinits(ty)[i] : i \in 1 .. Len(DestroyDeinits(ty))}
            \cup (IF DestroyBroadcasts(ty) THEN {"cond"} ELSE {})
      [] OTHER -> {}

(* ------------------------- the worker thread -------------------------- *)

\* Lines 38-47: __thread_func returns at once when t->func is null.
worker_entry ==
    /\ wpc = "entry"
    /\ wpc' = IF func = "null" THEN "exited" ELSE "run"
    /\ UNCHANGED <<app, mpc, signalled>>
    /\ UNCHANGED <<hstate, req, type, run, func, arg, ninit, ndeinit, owner,
                   sem, pc, call, held>>

\* The loop test of wait_loop reads t->run.
worker_loop_test ==
    /\ func = "wait_loop"
    /\ wpc = "run"
    /\ pc["worker"] = "idle"
    /\ wpc' = IF run THEN "body" ELSE "exited"
    /\ UNCHANGED <<app, mpc, signalled>>
    /\ UNCHANGED <<hstate, req, type, run, func, arg, ninit, ndeinit, owner,
                   sem, pc, call, held>>

\* The entry function returns after its last call; the OS thread ends.
worker_return ==
    /\ wpc = "last"
    /\ pc["worker"] = "idle"
    /\ wpc' = "exited"
    /\ UNCHANGED <<app, mpc, signalled>>
    /\ UNCHANGED <<hstate, req, type, run, func, arg, ninit, ndeinit, owner,
                   sem, pc, call, held>>

(* ----------------------- the shared counter --------------------------- *)

\* Where th stands in the code of lock_unlock.
Pos(th) == IF th = "worker" THEN wpc ELSE mpc

\* th runs the code of lock_unlock: the worker as its entry function, main
\* as its increment routine.
RunsLockUnlock(th) ==
    \/ th = "worker" /\ func = "lock_unlock"
    \/ th = "main" /\ mpc # "free"

\* counter++, first half: th reads the counter after thread_lock returned.
cs_read(th) ==
    /\ RunsLockUnlock(th)
    /\ Pos(th) = "locked"
    /\ pc[th] = "idle"
    /\ tmp' = [tmp EXCEPT ![th] = counter]
    /\ wpc' = IF th = "worker" THEN "read" ELSE wpc
    /\ mpc' = IF th = "main" THEN "read" ELSE mpc
    /\ UNCHANGED <<hstate, req, type, run, func, arg, ninit, ndeinit, owner,
                   sem, pc, call, held, counter, nincr, signalled>>

\* counter++, second half: th writes back what it read plus one.
cs_write(th) ==
    /\ RunsLockUnlock(th)
    /\ Pos(th) = "read"
    /\ counter' = tmp[th] + 1
    /\ tmp' = [tmp EXCEPT ![th] = 0]
    /\ nincr' = nincr + 1
    /\ wpc' = IF th = "worker" THEN "written" ELSE wpc
    /\ mpc' = IF th = "main" THEN "written" ELSE mpc
    /\ UNCHANGED <<hstate, req, type, run, func, arg, ninit, ndeinit, owner,
                   sem, pc, call, held, signalled>>

\* Main starts its increment routine: the code of lock_unlock.
incr_begin ==
    /\ mpc = "free"
    /\ pc["main"] = "idle"
    /\ hstate = "live"
    /\ nincr < MaxIncr
    /\ mpc' = "run"
    /\ UNCHANGED <<hstate, req, type, run, func, arg, ninit, ndeinit, owner,
                   sem, pc, call, held, wpc, app, signalled>>

(* --------------------------- specification ---------------------------- *)

Handles == {"null", "t"}

\* Every step the thread th can take inside the operations.
ThreadStep(th) ==
    \/ \E hnd \in Handles : thread_lock(th, hnd)
    \/ \E hnd \in Handles : thread_unlock(th, hnd)
    \/ \E hnd \in Handles, ms \in Timeouts : thread_wait(th, hnd, ms)
    \/ \E hnd \in Handles : thread_signal(th, hnd)
    \/ \E hnd \in Handles : thread_signal_all(th, hnd)
    \/ lock_acquire(th)
    \/ cond_timeout(th)
    \/ cond_return(th)
    \/ sem_acquire(th)
    \/ sem_timeout(th)

DestroyStep ==
    \/ destroy_signal_all
    \/ destroy_deinit
    \/ destroy_join
    \/ destroy_attr
    \/ destroy_free

WorkerStep ==
    \/ worker_entry
    \/ worker_loop_test
    \/ worker_return
    \/ cs_read("worker")
    \/ cs_write("worker")
    \/ ThreadStep("worker")

Next ==
    \/ \E f \in EntryFuncs, a \in Timeouts, k \in RequestedKinds,
          fail \in CreateFailures : thread_create(f, a, k, fail)
    \/ \E hnd \in Handles : thread_destroy(hnd)
    \/ DestroyStep
    \/ ThreadStep("main")
    \/ WorkerStep

Spec == Init /\ [][Next]_vars

\* The scheduler runs the worker thread whenever it can take a step, and a
\* thread_destroy that was called goes on whenever it is not blocked.
LiveSpec == Spec /\ WF_vars(WorkerStep) /\ WF_vars(DestroyStep)

(* ------------------------ the locking scenario ------------------------ *)

\* The kinds thread_lock and thread_unlock support.
LockKinds == {LOCK_MUTEX, LOCK_SPIN}

\* Main inside its increment routine calls lock and unlock as it says.
MainRoutineStep ==
    \/ thread_lock("main", "t")
    \/ lock_acquire("main")
    \/ cs_read("main")
    \/ cs_write("main")
    \/ thread_unlock("main", "t")

\* The worker running lock_unlock.
WorkerRoutineStep ==
    \/ worker_entry
    \/ thread_lock("worker", "t")
    \/ lock_acquire("worker")
    \/ cs_read("worker")
    \/ cs_write("worker")
    \/ thread_unlock("worker", "t")
    \/ worker_return

\* A handle of a locking kind whose worker runs lock_unlock while main
\* runs the same routine, again and again, on the same counter.
LockNext ==
    \/ \E k \in LockKinds : thread_create("lock_unlock", -1, k, "none")
    \/ incr_begin
    \/ (mpc # "free" /\ MainRoutineStep)
    \/ WorkerRoutineStep

LockSpec == Init /\ [][LockNext]_vars

(* ----------------------- the signalling scenario ---------------------- *)

\* The kinds thread_signal supports.
SignalKinds == {LOCK_COND, LOCK_SEM}

\* The threads that wait on the handle: its worker and another thread.
Waiters == {"worker", "aux"}

\* The threads blocked in thread_wait.
Parked == {w \in Threads : pc[w] \in {"cond_parked", "sem_parked"}}

\* Some blocked waiter has no signal coming to it yet.
Owed ==
    IF type = LOCK_SEM THEN Cardinality(Parked) > sem ELSE CondParked # {}

\* The worker running wait_once with no timeout.
WorkerWaitStep ==
    \/ worker_entry
    \/ thread_wait("worker", "t", -1)
    \/ cond_return("worker")
    \/ sem_acquire("worker")
    \/ worker_return

\* Another thread waits once on the handle, with no timeout.
AuxWaitStep ==
    \/ (call["aux"].op = "none" /\ thread_wait("aux", "t", -1))
    \/ cond_return("aux")
    \/ sem_acquire("aux")

\* Main signals a blocked waiter that is owed a signal.
OwedSignal == Owed /\ thread_signal("main", "t")

\* A handle of a signalling kind with two threads that wait with no
\* timeout, and main signalling at any time.
SignalNext ==
    \/ \E k \in SignalKinds : thread_create("wait_once", -1, k, "none")
    \/ WorkerWaitStep
    \/ AuxWaitStep
    \/ thread_signal("main", "t")
    \/ thread_signal_all("main", "t")

SignalSpec == Init /\ [][SignalNext]_vars

\* The scheduler runs each waiter whenever it can take a step, and main
\* calls thread_signal once for each blocked waiter.
SignalLiveSpec ==
    /\ SignalSpec
    /\ WF_vars(WorkerWaitStep)
    /\ WF_vars(AuxWaitStep)
    /\ WF_vars(OwedSignal)

(* ------------------------------ claims -------------------------------- *)

\* The call of th, made on the handle, is op.
OnHandle(th, op) == call[th].op = op /\ call[th].hnd = "t"

\* thread_destroy was called on a LOCK_COND handle whose worker, running
\* wait_once with no timeout, is parked in thread_wait.
C1_ParkedAtDestroy ==
    /\ pc["main"] = "d_switch"
    /\ type = LOCK_COND
    /\ func = "wait_once"
    /\ arg < 0
    /\ pc["worker"] = "cond_parked"

\* The worker left thread_wait because thread_destroy broadcast, and
\* thread_destroy has returned.
C1_ReleasedAndReturned ==
    /\ hstate = "freed"
    /\ pc["main"] = "idle"
    /\ wpc = "exited"
    /\ OnHandle("worker", "wait")
    /\ call["worker"].fin
    /\ call["worker"].why = "destroy"

\* C1: on a LOCK_COND handle whose worker is parked in thread_wait with no
\* timeout and returns once the wait returns, thread_destroy wakes the
\* worker by its broadcast, with no thread_signal, and eventually returns.
C1_DestroyReleasesWaiter == C1_ParkedAtDestroy ~> C1_ReleasedAndReturned

C1_Witness ==
    /\ C1_ReleasedAndReturned
    /\ type = LOCK_COND
    /\ func = "wait_once"
    /\ arg < 0
    /\ call["main"].op = "destroy"

\* C2: after thread_create and thread_destroy, for each kind, every
\* resource that was initialized has been deinitialized exactly once and
\* nothing that was not initialized has been deinitialized.
C2_DestroyReleasesWhatCreateInitialized ==
    hstate = "freed" => \A r \in Resources : ndeinit[r] = ninit[r]

\* C3: when thread_create fails (returns no handle), everything it had
\* acquired is released: no resource stays initialized.
C3_FailedCreateReleasesAll ==
    hstate = "null" => \A r \in Resources : ndeinit[r] = ninit[r]

\* C4: thread_signal on a LOCK_SPIN or LOCK_MUTEX handle returns the error
\* result.
C4_SignalUnsupportedIsError ==
    \A th \in Threads :
        /\ OnHandle(th, "signal")
        /\ call[th].fin
        /\ type \in {LOCK_SPIN, LOCK_MUTEX}
        => call[th].ret = ERR

\* C5: thread_signal_all on a handle that is not LOCK_COND returns the
\* error result.
C5_SignalAllUnsupportedIsError ==
    \A th \in Threads :
        /\ OnHandle(th, "signal_all")
        /\ call[th].fin
        /\ type # LOCK_COND
        => call[th].ret = ERR

\* C6: thread_wait on a LOCK_MUTEX handle does not block and returns the
\* error result.
C6_WaitOnMutexIsError ==
    \A th \in Threads :
        OnHandle(th, "wait") /\ type = LOCK_MUTEX
        => call[th].fin /\ call[th].ret = ERR

\* The step leaves the handle as it was: its fields, its primitives, its
\* thread, and every thread's place.
HandleUntouched == UNCHANGED <<hstate, handle, pc, held>>

\* C7: thread_wait on a LOCK_SPIN handle returns the error result at once,
\* whatever the timeout, without blocking and without changing the spin
\* flag or anything else of the handle.
C7_WaitOnSpinIsError ==
    [][\A th \in Threads, ms \in Timeouts :
          type = LOCK_SPIN /\ thread_wait(th, "t", ms)
          => /\ call'[th] = Called("wait", "t", ms, TRUE, ERR)
             /\ HandleUntouched]_vars

C7_Witness ==
    /\ type = LOCK_SPIN
    /\ hstate = "live"
    /\ OnHandle("main", "wait")
    /\ call["main"].ms < 0
    /\ call["main"].fin
    /\ call["main"].ret = ERR
    /\ pc["main"] = "idle"

\* C8: thread_lock and thread_unlock on a LOCK_SEM or LOCK_COND handle
\* return the error result, never block, and leave the handle unchanged.
C8_LockOnSemCondIsError ==
    [][\A th \in Threads :
          /\ type \in {LOCK_SEM, LOCK_COND} /\ thread_lock(th, "t")
             => /\ call'[th] = Called("lock", "t", 0, TRUE, ERR)
                /\ HandleUntouched
          /\ type \in {LOCK_SEM, LOCK_COND} /\ thread_unlock(th, "t")
             => /\ call'[th] = Called("unlock", "t", 0, TRUE, ERR)
                /\ HandleUntouched]_vars

C8_Witness ==
    /\ type \in {LOCK_SEM, LOCK_COND}
    /\ hstate = "live"
    /\ OnHandle("main", "unlock")
    /\ call["main"].ret = ERR
    /\ OnHandle("worker", "lock")
    /\ call["worker"].ret = ERR
    /\ call["worker"].fin

\* C9: with a null handle, lock, unlock, wait, signal and signal_all return
\* the error result, and destroy returns at once, touching nothing.
C9_NullHandleIsError ==
    [][/\ \A ms \in Timeouts :
             \/ thread_lock("main", "null")
             \/ thread_unlock("main", "null")
             \/ thread_wait("main", "null", ms)
             \/ thread_signal("main", "null")
             \/ thread_signal_all("main", "null")
             => /\ call'["main"].fin
                /\ call'["main"].ret = ERR
                /\ HandleUntouched
                /\ wpc' = wpc
       /\ thread_destroy("null")
             => /\ call'["main"].fin
                /\ HandleUntouched
                /\ wpc' = wpc]_vars

C9_Witness ==
    /\ hstate = "live"
    /\ call["main"].op = "signal_all"
    /\ call["main"].hnd = "null"
    /\ call["main"].fin
    /\ call["main"].ret = ERR

\* What thread_create leaves initialized when it succeeds with type ty.
InitializedFor(ty) == {"mem", "attr"} \cup CreateInits(ty)

\* C10: a handle created with a kind that is none of the four is a
\* LOCK_COND handle: the same type, the same primitives initialized, and
\* every operation dispatched as on a handle created with LOCK_COND.
C10_UnknownKindIsCond ==
    hstate \in {"live", "freed"} /\ req \notin ValidKinds
    => /\ type = LOCK_COND
       /\ {r \in Resources : ninit[r] > 0} = InitializedFor(LOCK_COND)
       /\ LockDispatch(type) = LockDispatch(LOCK_COND)
       /\ WaitDispatch(type) = WaitDispatch(LOCK_COND)
       /\ SignalDispatch(type) = SignalDispatch(LOCK_COND)
       /\ SignalAllDispatch(type) = SignalAllDispatch(LOCK_COND)
       /\ DestroyBroadcasts(type) = DestroyBroadcasts(LOCK_COND)
       /\ DestroyDeinits(type) = DestroyDeinits(LOCK_COND)

C10_Witness ==
    /\ hstate = "freed"
    /\ req = LOCK_OTHER
    /\ type = LOCK_COND
    /\ OnHandle("worker", "wait")
    /\ call["worker"].why = "signal_all"

\* C11: thread_destroy releases neither the thread attributes nor the handle
\* before the worker's entry function has returned: the worker never runs
\* while the attributes are destroyed or the handle is freed.
C11_JoinBeforeRelease ==
    (ndeinit["attr"] > 0 \/ hstate = "freed") => wpc = "exited"

\* The handle was freed after its worker made a call and returned.
C11_Witness ==
    /\ hstate = "freed"
    /\ func # "null"
    /\ OnHandle("worker", "wait")
    /\ call["worker"].fin
    /\ wpc = "exited"

\* th is between a successful thread_lock and its thread_unlock.
Holding(th) ==
    /\ RunsLockUnlock(th)
    /\ Pos(th) \in {"locked", "read", "written"}
    /\ OnHandle(th, "lock")
    /\ call[th].fin
    /\ call[th].ret = OK

\* No thread is inside lock; counter++; unlock.
Quiescent == mpc = "free" /\ wpc \in {"last", "exited"}

\* C12: on a LOCK_MUTEX or LOCK_SPIN handle, with threads that each call
\* thread_lock, read, increment and write a shared counter and call
\* thread_unlock, at most one thread is between a successful lock and its
\* unlock, and once all are done the counter equals the number of
\* increments made.
C12_LockIsMutuallyExclusive ==
    type \in LockKinds /\ hstate = "live" =>
        /\ Cardinality({th \in Threads : Holding(th)}) <= 1
        /\ Quiescent => counter = nincr

\* The threads contend: main, in a later round, has read the counter under
\* the lock while the worker is blocked in thread_lock.
C12_Witness ==
    /\ type \in LockKinds
    /\ Holding("main")
    /\ mpc = "read"
    /\ tmp["main"] > 0
    /\ pc["worker"] = "lock_blocked"

\* The wait of th on the handle returned the woken-by-signal result.
Signaled(th) ==
    /\ OnHandle(th, "wait")
    /\ call[th].fin
    /\ call[th].ret = OK

\* One thread_signal call takes at most one waiter out of its blocked
\* state (a semaphore waiter leaves only by consuming one posted count),
\* and thread_signal_all on LOCK_COND leaves no waiter blocked.
WakesAtMostOne ==
    /\ \A th \in Threads :
          thread_signal(th, "t") =>
              /\ Cardinality(Parked \ Parked') <= 1
              /\ sem' <= sem + 1
    /\ \A w \in Threads :
          pc[w] = "sem_parked" /\ pc'[w] # "sem_parked" =>
              sem > 0 /\ sem' = sem - 1
    /\ \A th \in Threads :
          type = LOCK_COND /\ thread_signal_all(th, "t") => CondParked' = {}

\* C13: on a LOCK_COND or LOCK_SEM handle, with waiters blocked in
\* thread_wait with no timeout and thread_signal called once for each of
\* them, every waiter eventually returns the woken-by-signal result; one
\* thread_signal wakes at most one waiter, thread_signal_all on LOCK_COND
\* wakes all of them.
C13_SignalsWakeWaiters ==
    /\ \A w \in Waiters : (w \in Parked) ~> Signaled(w)
    /\ [][WakesAtMostOne]_vars

\* Both waiters were blocked on the condition variable, and both returned
\* because of a thread_signal.
C13_Witness ==
    /\ type = LOCK_COND
    /\ \A w \in Waiters : Signaled(w) /\ call[w].why = "signal"
    /\ call["main"].op = "signal"

\* C14: thread_wait with a finite timeout on a LOCK_COND or LOCK_SEM handle
\* on which no signal, signal_all or destroy was issued returns the
\* timed-out result, which is neither the woken-by-signal result nor the
\* error result.
C14_TimedWaitTimesOut ==
    \A th \in Threads :
        /\ type \in {LOCK_COND, LOCK_SEM}
        /\ OnHandle(th, "wait")
        /\ call[th].ms >= 0
        /\ call[th].fin
        /\ ~signalled
        => /\ call[th].ret = TIMEDOUT
           /\ TIMEDOUT \notin {OK, ERR}

\* thread_destroy was called on the handle and has not returned yet.
Destroying ==
    pc["main"] \in {"d_switch", "d_deinit", "d_join", "d_attr", "d_free"}

\* C15: t->run is true from the return of a successful thread_create until
\* thread_destroy is called; after thread_create only thread_destroy
\* changes it, to false; lock, unlock, wait, signal and signal_all leave it
\* as it is, whatever they return.
C15_RunChangedOnlyByDestroy ==
    [][/\ hstate' = "live" /\ ~Destroying' => run'
       /\ run' # run =>
             \/ hstate = "none" /\ hstate' # "none"
             \/ thread_destroy("t") /\ ~run'
       /\ \A th \in Threads, hnd \in Handles, ms \in Timeouts :
             \/ thread_lock(th, hnd)
             \/ thread_unlock(th, hnd)
             \/ thread_wait(th, hnd, ms)
             \/ thread_signal(th, hnd)
             \/ thread_signal_all(th, hnd)
             => run' = run]_vars

\* thread_destroy has set the flag false after operations of both threads
\* had left it true.
C15_Witness ==
    /\ hstate = "live"
    /\ Destroying
    /\ ~run
    /\ OnHandle("worker", "lock")
    /\ call["worker"].fin
    /\ wpc = "locked"

\* C16: thread_destroy on a LOCK_COND handle sets t->run false, then
\* broadcasts on the condition variable, then deinitializes the mutex, then
\* the condition variable, then joins the worker, then destroys the
\* attributes, then frees the handle; the broadcast leaves no waiter parked
\* and comes before either deinitialization.
C16_DestroyOrderOnCond ==
    [][type = LOCK_COND /\ hstate = "live" =>
          /\ thread_destroy("t") =>
                ~run' /\ pc'["main"] = "d_switch" /\ ndeinit' = ndeinit
          /\ pc["main"] = "d_switch" /\ pc'["main"] # "d_switch" =>
                /\ ~run
                /\ CondParked' = {}
                /\ pc'["main"] = "d_deinit"
                /\ ndeinit' = ndeinit
          /\ ndeinit'["mutex"] # ndeinit["mutex"] =>
                /\ pc["main"] = "d_deinit"
                /\ ndeinit["cond"] = 0
                /\ ndeinit'["cond"] = 0
          /\ ndeinit'["cond"] # ndeinit["cond"] =>
                /\ pc["main"] = "d_deinit"
                /\ ndeinit["mutex"] > 0
                /\ ndeinit["attr"] = 0
          /\ pc["main"] = "d_join" /\ pc'["main"] # "d_join" =>
                /\ ndeinit["mutex"] > 0 /\ ndeinit["cond"] > 0
                /\ Joined
                /\ ndeinit' = ndeinit
          /\ ndeinit'["attr"] # ndeinit["attr"] =>
                /\ pc["main"] = "d_attr"
                /\ ndeinit["mem"] = 0
                /\ ndeinit'["mem"] = 0
          /\ ndeinit'["mem"] # ndeinit["mem"] =>
                /\ pc["main"] = "d_free"
                /\ ndeinit["attr"] > 0
                /\ hstate' = "freed"]_vars

\* thread_destroy ran to its end on a LOCK_COND handle whose worker it had
\* woken from thread_wait.
C16_Witness ==
    /\ type = LOCK_COND
    /\ hstate = "freed"
    /\ ndeinit["mutex"] > 0
    /\ ndeinit["cond"] > 0
    /\ OnHandle("worker", "wait")
    /\ call["worker"].why = "destroy"

\* C17: on a LOCK_COND or LOCK_SEM handle a signal issued before the wait
\* is not queued: a thread_wait with no timeout never returns the
\* woken-by-signal result at the call itself, on account of what was
\* signalled before it.
C17_EarlySignalNotQueued ==
    [][\A th \in Threads :
          /\ type \in SignalKinds
          /\ hstate = "live"
          /\ thread_wait(th, "t", -1)
          => ~Signaled(th)']_vars

\* C17 as amended: on a LOCK_COND handle an earlier signal is not queued (a
\* wait with no timeout blocks, and leaves the condition variable only by
\* a signal, signal_all or destroy issued while it is parked); on a
\* LOCK_SEM handle every signal is counted, and a wait returns the
\* woken-by-signal result at once exactly when a count is left, taking it.
C17_SemSignalIsCounted ==
    [][/\ \A th \in Threads :
             hstate = "live" /\ thread_wait(th, "t", -1) =>
                /\ type = LOCK_COND => ~Signaled(th)'
                /\ type = LOCK_SEM /\ Usable("sem") =>
                      /\ Signaled(th)' <=> sem > 0
                      /\ sem > 0 => sem' = sem - 1
                      /\ sem = 0 => pc'[th] = "sem_parked"
       /\ \A w \in Threads :
             /\ call[w].ms < 0
             /\ pc[w] = "cond_parked"
             /\ pc'[w] # "cond_parked"
             => \/ destroy_signal_all
                \/ \E th \in Threads :
                      thread_signal(th, "t") \/ thread_signal_all(th, "t")]_vars

\* On a LOCK_SEM handle main signalled with no thread waiting, and its own
\* wait with no timeout, called afterwards, returned at once.
C17_Witness ==
    /\ type = LOCK_SEM
    /\ hstate = "live"
    /\ pc["worker"] = "idle"
    /\ Signaled("main")
    /\ call["main"].ms < 0
    /\ call["main"].why = "none"

\* C18: every mutex, condition variable or semaphore that lock, unlock,
\* wait, signal, signal_all or destroy operates on, on a handle, was
\* initialized by thread_create for the handle's type.
C18_TouchedWasInitialized ==
    \A th \in Threads :
        call[th].hnd = "t" =>
            Touches(call[th].op, type) \subseteq CreateInits(type)

\* The primitives thread_destroy has deinitialized.
Deinitialized == {r \in {"mutex", "sem", "cond"} : ndeinit[r] > 0}

\* The primitives th is blocked on, or is about to re-acquire.
BlockedOn(th) ==
    CASE pc[th] = "sem_parked"   -> {"sem"}
      [] pc[th] = "cond_parked"  -> {"mutex", "cond"}
      [] pc[th] = "cond_woken"   -> {"mutex"}
      [] pc[th] = "lock_blocked" -> ArmTouches(LockDispatch(type))
      [] OTHER                   -> {}

\* C19: however thread_destroy interleaves with the worker's own lock,
\* unlock, wait and signal on the handle, no thread calls an operation
\* that operates on a mutex, condition variable or semaphore that
\* thread_destroy has deinitialized, and none is left blocked on one or
\* re-acquires one.
C19_NoUseAfterDeinit ==
    [][/\ \A th \in Threads : BlockedOn(th)' \cap Deinitialized' = {}
       /\ \A th \in Threads, ms \in Timeouts :
             /\ \/ thread_lock(th, "t")
                \/ thread_unlock(th, "t")
                \/ thread_wait(th, "t", ms)
                \/ thread_signal(th, "t")
             => Touches(call'[th].op, type) \cap Deinitialized = {}]_vars

\* C20: on a LOCK_COND handle whose entry function is wait_loop with no
\* timeout, thread_destroy always gets to return: the worker is never left
\* parked in thread_wait, with nothing left to wake it, while
\* thread_destroy is blocked in pthread_join.
C20_DestroyOfWaitLoopReturns ==
    /\ type = LOCK_COND
    /\ func = "wait_loop"
    /\ arg < 0
    /\ pc["main"] = "d_join"
    => pc["worker"] # "cond_parked"

=============================================================================
